---- MODULE Spec2Model ----
(***************************************************************************)
(* Model of the AVI -> MP4 batch converter (src/app.py): the upload        *)
(* truncation, the ThreadPoolExecutor batch loop, process_file and         *)
(* convert_single_video, with the file system they stage files on.         *)
(***************************************************************************)
EXTENDS Integers, Sequences, FiniteSets, Bags, TLC

(* ------------------------------ bounds -------------------------------- *)

\* Largest batch whose names and tool outcomes are enumerated exhaustively.
MaxSmall == 2

\* Largest upload offered to the page (one more than the page keeps).
MaxUpload == 11

\* Largest batch of the runs checked for termination.
MaxLive == 7

(* --------------------------- program constants ------------------------ *)

MAX_THREADS == 3

\* if uploaded_files and len(uploaded_files) > 10: uploaded_files[:10]
MAX_FILES == 10

(* ------------------------- names and formatting ----------------------- *)

\* File names are sequences of one-character strings.
NameA == <<"a", ".", "a", "v", "i">>
NameA1 == <<"a", "_", "1", ".", "a", "v", "i">>
Names == {NameA, NameA1}

Unknown == <<"U", "n", "k", "n", "o", "w", "n">>

DigitChars == <<"0", "1", "2", "3", "4", "5", "6", "7", "8", "9">>

\* str(index) for a non-negative int: decimal digits, most significant first.
RECURSIVE Str(_)
Str(n) ==
    IF n < 10 THEN <<DigitChars[n + 1]>>
    ELSE Str(n \div 10) \o <<DigitChars[(n % 10) + 1]>>

\* Position of the last "." of a name, 0 when there is none (str.rfind).
LastDot(name) ==
    LET dots == {j \in 1..Len(name) : name[j] = "."}
    IN  IF dots = {} THEN 0 ELSE CHOOSE j \in dots : \A k \in dots : k <= j

\* Path(name).stem: the name without its last suffix; a leading or a
\* trailing dot starts no suffix.
Stem(name) ==
    LET j == LastDot(name)
    IN  IF j > 1 /\ j < Len(name) THEN SubSeq(name, 1, j - 1) ELSE name

\* f"{Path(file.name).stem}_{index}.mp4"
OutputFilenameNoIndex(name, index) == Stem(name) \o <<".", "m", "p", "4">>

OutputFilename(name, index) ==
    Stem(name) \o <<"_">> \o Str(index) \o <<".", "m", "p", "4">>

\* OUTPUT_DIR / output_filename
OutputPath(filename) == [dir |-> "converted_videos", name |-> filename]

\* tempfile.NamedTemporaryFile(suffix=".avi"): a fresh name for every call.
TempPath(i) == [dir |-> "tmp", name |-> <<"t">> \o Str(i) \o <<".", "a", "v", "i">>]

(* ------------------------------ inputs -------------------------------- *)

\* What happens to one task's conversion: the exit of the external tool and
\* what it leaves at the destination, or a failure to launch or to stage.
Scenarios ==
    {"ok", "ok_empty", "ok_absent", "fail_text", "fail_partial", "fail_silent",
     "no_tool", "stage_error"}

ScenarioCycle ==
    <<"ok", "stage_error", "fail_text", "ok_empty", "no_tool", "fail_partial", "ok",
      "ok_absent", "fail_silent", "ok", "ok", "ok">>

File(name, scenario) == [name |-> name, scenario |-> scenario]

Files == {File(n, s) : n \in Names, s \in Scenarios}

RECURSIVE SeqsUpTo(_, _)
SeqsUpTo(S, n) ==
    IF n = 0 THEN {<<>>}
    ELSE LET shorter == SeqsUpTo(S, n - 1)
         IN  shorter \cup {Append(s, x) : s \in {t \in shorter : Len(t) = n - 1}, x \in S}

\* Every batch of at most MaxSmall files.
SmallBatches == SeqsUpTo(Files, MaxSmall)

\* The batch of n files with names alternating and scenarios cycling.
PatternBatch(n) ==
    [i \in 1..n |->
        File(IF i % 2 = 1 THEN NameA ELSE NameA1,
             ScenarioCycle[((i - 1) % Len(ScenarioCycle)) + 1])]

\* One batch of each size above the page's limit.
LargeBatches == {PatternBatch(n) : n \in (MAX_FILES + 1)..MaxUpload}

\* One batch of each size up to MaxLive, for the runs checked for progress.
LiveBatches == {PatternBatch(n) : n \in 0..MaxLive}

Batches == SmallBatches \cup LargeBatches

(* ------------------------------- state -------------------------------- *)

VARIABLES
    selected,        \* the files the user put into the uploader
    uploaded_files,  \* the list the script works on, after the limit
    pc,              \* where the script is
    task,            \* per submitted future: its state, locals and outcome
    finished_futures,\* the futures that are done and not yet yielded, oldest first
    disk,            \* the files that exist, with what they hold
    results,         \* results list of the batch loop
    completed,       \* completed counter of the batch loop
    total,           \* total of the batch loop
    progress,        \* the (completed, total) pairs shown so far
    report           \* the success and failure lists rendered after the batch

vars ==
    <<selected, uploaded_files, pc, task, finished_futures, disk, results, completed,
      total, progress, report>>

(* ------------------------------ records ------------------------------- *)

\* The tuple process_file returns, without its duration:
\* (success, file.name, file_bytes, output_filename, error).
Result(succeeded, name, data, output_name, error) ==
    [succeeded |-> succeeded, name |-> name, data |-> data,
     output_name |-> output_name, error |-> error]

NoResult == Result(FALSE, <<>>, "none", <<>>, "")

\* What a future holds: nothing yet, a returned tuple, or a raised exception.
Pending == [kind |-> "pending", value |-> NoResult, message |-> ""]
Returned(r) == [kind |-> "returned", value |-> r, message |-> ""]
Raised(msg) == [kind |-> "raised", value |-> NoResult, message |-> msg]

NoReport == [shown |-> FALSE, successful |-> <<>>, failed |-> <<>>]

(* ---------------------------- file system ----------------------------- *)

Exists(d, path) == \E f \in d : f.path = path

ContentOf(d, path) == (CHOOSE f \in d : f.path = path).content

\* os.unlink(path)
Unlink(d, path) == {f \in d : f.path # path}

\* Creating or overwriting path with content (ffmpeg -y, NamedTemporaryFile).
WriteFile(d, path, content) ==
    Unlink(d, path) \cup {[path |-> path, content |-> content]}

(* --------------------------- the converter ---------------------------- *)

\* convert_single_video: the (success, error) pair it returns for a tool
\* run that ends as the scenario says, and what the tool left at the
\* destination ("absent" when nothing).
ConvertSingleVideo(scenario) ==
    CASE scenario = "ok" ->
            [success |-> TRUE, error |-> "", written |-> "data"]
      [] scenario = "ok_empty" ->
            [success |-> TRUE, error |-> "", written |-> "empty"]
      [] scenario = "ok_absent" ->
            [success |-> TRUE, error |-> "", written |-> "absent"]
      [] scenario = "fail_text" ->
            [success |-> FALSE, error |-> "invalid data", written |-> "absent"]
      [] scenario = "fail_partial" ->
            [success |-> FALSE, error |-> "invalid data", written |-> "partial"]
      [] scenario = "fail_silent" ->
            [success |-> FALSE, error |-> "", written |-> "absent"]
      [] scenario = "no_tool" ->
            [success |-> FALSE, error |-> "No such file or directory: 'ffmpeg'",
             written |-> "absent"]

\* The bytes open(output_path, "rb").read() gives for a file's content.
ReadBytes(content) == IF content = "empty" THEN "empty" ELSE "bytes"

\* if output_path.exists():
OutputCheck(d, path) == Exists(d, path)

\* process_file from the return of convert_single_video to its own return:
\* the disk it leaves and the tuple it returns.
AfterConvert(d, file, i, output_filename, conv) ==
    LET output_path == OutputPath(output_filename)
        d1 == IF conv.written = "absent" THEN d
              ELSE WriteFile(d, output_path, conv.written)
        d2 == Unlink(d1, TempPath(i))
    IN  IF conv.success
        THEN IF OutputCheck(d2, output_path)
             THEN [disk |-> Unlink(d2, output_path),
                   ret |-> Returned(Result(TRUE, file.name,
                                           ReadBytes(ContentOf(d2, output_path)),
                                           output_filename, ""))]
             ELSE [disk |-> d2,
                   ret |-> Returned(Result(FALSE, file.name, "none", <<>>,
                                           "Output file not found after conversion."))]
        ELSE [disk |-> d2,
              ret |-> Returned(Result(FALSE, file.name, "none", <<>>, conv.error))]

(* ----------------------------- the script ----------------------------- *)

\* uploaded_files[:10] when more than 10 files were chosen.
LimitFilesNone(files) == files

LimitFiles(files) ==
    IF Len(files) > MAX_FILES THEN SubSeq(files, 1, MAX_FILES) ELSE files

\* if uploaded_files: ... else: usage instructions
HasFilesAlways(files) == TRUE

HasFiles(files) == files # <<>>

Tasks == DOMAIN task

InFlight == {i \in Tasks : task[i].st = "converting"}

\* ThreadPoolExecutor(max_workers=MAX_THREADS): a worker thread is free.
IdleWorkerAlways == TRUE

IdleWorker == Cardinality(InFlight) < MAX_THREADS

InitWith(batches) ==
    /\ selected \in batches
    /\ uploaded_files = <<>>
    /\ pc = "upload"
    /\ task = <<>>
    /\ finished_futures = <<>>
    /\ disk = {}
    /\ results = <<>>
    /\ completed = 0
    /\ total = 0
    /\ progress = <<>>
    /\ report = NoReport

\* The script's run over the uploader: the limit, then the branch on an
\* empty list.
Init == InitWith(Batches)

LoadFiles ==
    /\ pc = "upload"
    /\ uploaded_files' = LimitFiles(selected)
    /\ pc' = IF HasFiles(uploaded_files') THEN "ready" ELSE "usage"
    /\ UNCHANGED <<selected, task, finished_futures, disk, results, completed, total,
                   progress, report>>

\* The button: results = [], every file submitted to the executor,
\* completed = 0, total = len(uploaded_files).
ClickConvert ==
    /\ pc = "ready"
    /\ results' = <<>>
    /\ task' = [i \in 1..Len(uploaded_files) |->
                    [st |-> "queued", output_filename |-> <<>>, ret |-> Pending]]
    /\ completed' = 0
    /\ total' = Len(uploaded_files)
    /\ finished_futures' = <<>>
    /\ pc' = "running"
    /\ UNCHANGED <<selected, uploaded_files, disk, progress, report>>

\* A free worker takes the oldest queued call of process_file(file, i - 1)
\* and runs it up to the wait for the external tool.
StartTask(i) ==
    /\ pc = "running"
    /\ i \in Tasks
    /\ task[i].st = "queued"
    /\ \A j \in Tasks : j < i => task[j].st # "queued"
    /\ IdleWorker
    /\ LET file == uploaded_files[i]
           output_filename == OutputFilename(file.name, i - 1)
       IN  CASE file.scenario = "stage_error" ->
                  \* temp_file.write raises: the file exists, half written
                  /\ finished_futures' = Append(finished_futures, i)
                  /\ disk' = WriteFile(disk, TempPath(i), "partial")
                  /\ task' = [task EXCEPT ![i] =
                                 [st |-> "finished", output_filename |-> <<>>,
                                  ret |-> Raised("No space left on device")]]
             [] file.scenario = "no_tool" ->
                  \* subprocess.run raises before any process runs
                  LET after == AfterConvert(WriteFile(disk, TempPath(i), "data"), file, i,
                                            output_filename,
                                            ConvertSingleVideo(file.scenario))
                  IN  /\ finished_futures' = Append(finished_futures, i)
                      /\ disk' = after.disk
                      /\ task' = [task EXCEPT ![i] =
                                     [st |-> "finished",
                                      output_filename |-> output_filename,
                                      ret |-> after.ret]]
             [] OTHER ->
                  /\ finished_futures' = finished_futures
                  /\ disk' = WriteFile(disk, TempPath(i), "data")
                  /\ task' = [task EXCEPT ![i] =
                                 [st |-> "converting",
                                  output_filename |-> output_filename,
                                  ret |-> Pending]]
    /\ UNCHANGED <<selected, uploaded_files, pc, results, completed, total, progress,
                   report>>

\* The external tool of task i exits; process_file runs to its return.
ToolExit(i) ==
    /\ pc = "running"
    /\ i \in Tasks
    /\ task[i].st = "converting"
    /\ LET file == uploaded_files[i]
           after == AfterConvert(disk, file, i, task[i].output_filename,
                                 ConvertSingleVideo(file.scenario))
       IN  /\ disk' = after.disk
           /\ task' = [task EXCEPT ![i].st = "finished", ![i].ret = after.ret]
    /\ finished_futures' = Append(finished_futures, i)
    /\ UNCHANGED <<selected, uploaded_files, pc, results, completed, total, progress,
                   report>>

\* completed += 1
NextCompletedSkips(ret) == IF ret.kind = "raised" THEN completed ELSE completed + 1

NextCompleted(ret) == completed + 1

\* result = future.result() / except Exception as e
CollectedResult(ret) ==
    IF ret.kind = "raised"
    THEN Result(FALSE, Unknown, "empty", <<>>, ret.message)
    ELSE ret.value

\* One turn of the as_completed loop: it yields the future that has been
\* done the longest.
Collect ==
    /\ pc = "running"
    /\ finished_futures # <<>>
    /\ LET i == Head(finished_futures)
       IN  /\ results' = Append(results, CollectedResult(task[i].ret))
           /\ completed' = NextCompleted(task[i].ret)
           /\ progress' = Append(progress, <<completed', total>>)
           /\ task' = [task EXCEPT ![i].st = "collected"]
    /\ finished_futures' = Tail(finished_futures)
    /\ UNCHANGED <<selected, uploaded_files, pc, disk, total, report>>

\* as_completed has yielded every future.
AllCollectedOne == \E i \in Tasks : task[i].st = "collected"

AllCollected == \A i \in Tasks : task[i].st = "collected"

\* The loop and the executor's with-block end; the lists are rendered.
Finish ==
    /\ pc = "running"
    /\ AllCollected
    /\ pc' = "done"
    /\ report' = [shown |-> TRUE,
                  successful |-> SelectSeq(results, LAMBDA r : r.succeeded),
                  failed |-> SelectSeq(results, LAMBDA r : ~r.succeeded)]
    /\ UNCHANGED <<selected, uploaded_files, task, finished_futures, disk, results,
                   completed, total, progress>>

Next ==
    \/ LoadFiles
    \/ ClickConvert
    \/ \E i \in Tasks : StartTask(i)
    \/ \E i \in Tasks : ToolExit(i)
    \/ Collect
    \/ Finish

Spec == Init /\ [][Next]_vars

\* Once a batch runs, the worker threads and the script's thread keep
\* running, and an external tool process that runs exits.
FairSpec ==
    /\ InitWith(LiveBatches)
    /\ [][Next]_vars
    /\ WF_vars(\E i \in Tasks : StartTask(i))
    /\ WF_vars(\E i \in Tasks : ToolExit(i))
    /\ WF_vars(Collect)
    /\ WF_vars(Finish)

(* ------------------------------ claims -------------------------------- *)

Min(a, b) == IF a < b THEN a ELSE b

Count(seq, P(_)) == Cardinality({k \in 1..Len(seq) : P(seq[k])})

Done(i) == task[i].st \in {"finished", "collected"}

\* C1 (as stated): when the batch of the N chosen files has finished, the
\* results list holds exactly N entries, and the entries that succeeded plus
\* the entries that failed are N, also for N greater than 10.
C1_Original ==
    pc = "done" =>
        /\ Len(results) = Len(selected)
        /\ Len(report.successful) + Len(report.failed) = Len(selected)

\* C1 (amended): when the batch has finished, the results list holds exactly
\* min(N, 10) entries, N the number of files chosen, and the entries that
\* succeeded plus the entries that failed are as many.
C1_Amended ==
    pc = "done" =>
        /\ Len(results) = Min(Len(selected), MAX_FILES)
        /\ Len(report.successful) + Len(report.failed) = Min(Len(selected), MAX_FILES)

C1_Witness ==
    /\ pc = "done"
    /\ Len(selected) > MAX_FILES
    /\ Len(report.successful) > 0
    /\ Len(report.failed) > 0

\* C2: at any time at most min(MAX_THREADS, N) tasks of a batch of N are
\* inside convert_single_video with their external process running.
C2_BoundedInFlight ==
    Cardinality(InFlight) <= Min(MAX_THREADS, Len(uploaded_files))

C2_Witness ==
    /\ Cardinality(InFlight) = MAX_THREADS
    /\ \E i \in Tasks : task[i].st = "queued"

\* C3: when the batch has finished, every submitted task has contributed
\* exactly one result, and each result carries the name of its task: the
\* results are as many as the tasks and every name occurs in the results as
\* often as among the tasks, whatever the outcome of each task.
C3_OneResultPerTask ==
    pc = "done" =>
        /\ Len(results) = Len(uploaded_files)
        /\ \A n \in Names \cup {Unknown} :
              Count(results, LAMBDA r : r.name = n)
                  = Count(uploaded_files, LAMBDA f : f.name = n)

\* C4: two distinct tasks of a batch that have derived their output name
\* have distinct output names and distinct output paths, also when their
\* sources have the same name; every output file on disk is at the path of
\* exactly one task.
C4_DistinctOutputs ==
    /\ \A i, j \in Tasks :
          (i # j /\ task[i].output_filename # <<>> /\ task[j].output_filename # <<>>)
              => /\ task[i].output_filename # task[j].output_filename
                 /\ OutputPath(task[i].output_filename)
                        # OutputPath(task[j].output_filename)
    /\ \A f \in disk :
          f.path.dir = "converted_videos" =>
              Cardinality({i \in Tasks : OutputPath(task[i].output_filename) = f.path}) = 1

C4_Witness ==
    \E i, j \in Tasks :
        /\ i # j
        /\ uploaded_files[i].name = uploaded_files[j].name
        /\ task[i].st = "converting"
        /\ task[j].st = "converting"

\* C5: every result in the results list is either a success with a
\* non-empty output and an output name, or a failure with a non-empty
\* error text, and never both or neither.
C5_ResultShape ==
    \A k \in 1..Len(results) :
        LET r == results[k]
        IN  (r.succeeded /\ r.data = "bytes" /\ r.output_name # <<>>)
                # (~r.succeeded /\ r.error # "")

\* C6: a task whose tool exited with status zero and left the destination
\* absent or empty has a failure as its result; a success is returned only
\* when the tool exited zero and the output exists with content.
C6_EmptyOutputFails ==
    \A i \in Tasks :
        task[i].ret.kind = "returned" =>
            /\ uploaded_files[i].scenario \in {"ok_empty", "ok_absent"}
                  => ~task[i].ret.value.succeeded
            /\ task[i].ret.value.succeeded => uploaded_files[i].scenario = "ok"

\* C7: once a task has finished, on whatever path, neither its staged
\* temporary input nor its output file is on disk.
C7_NoFilesLeft ==
    \A i \in Tasks :
        Done(i) =>
            /\ ~Exists(disk, TempPath(i))
            /\ ~Exists(disk, OutputPath(OutputFilename(uploaded_files[i].name, i - 1)))

\* C8: the notifications shown so far are (1, N), (2, N), ... one for each
\* result collected, completed is the number of results collected, and when
\* the batch has finished the last notification is (N, N).
C8_Progress ==
    /\ completed = Len(results)
    /\ Len(progress) = Len(results)
    /\ \A k \in 1..Len(progress) : progress[k] = <<k, Len(uploaded_files)>>
    /\ pc = "done" =>
          /\ Len(progress) = Len(uploaded_files)
          /\ progress[Len(progress)] = <<Len(uploaded_files), Len(uploaded_files)>>

C8_Witness ==
    /\ pc = "done"
    /\ Len(progress) = MAX_FILES
    /\ \E i \in Tasks : task[i].ret.kind = "raised"

\* C9: a batch that has started finishes, and the report is shown only when
\* every submitted task has produced a result that was collected, none
\* being queued or running.
C9_Terminates ==
    /\ (pc = "running") ~> (pc = "done")
    /\ [](report.shown =>
            /\ \A i \in Tasks : task[i].st = "collected"
            /\ Len(results) = Len(task))

C9_Witness ==
    /\ pc = "done"
    /\ report.shown
    /\ Len(task) > MAX_THREADS

\* C10: with no file chosen the page ends at the usage instructions, and
\* only then; no task is submitted, no file is staged, and no result,
\* notification or report is produced.
C10_EmptyRejected ==
    /\ pc = "usage" <=> (pc # "upload" /\ Len(selected) = 0)
    /\ Len(selected) = 0 =>
          /\ task = <<>>
          /\ disk = {}
          /\ results = <<>>
          /\ progress = <<>>
          /\ ~report.shown

C10_Witness == pc = "usage"

====
